---- MODULE Spec2Model ----
(***************************************************************************)
(* Model of thinc/neural/optimizers.pyx: the SGD and Adam optimizers and   *)
(* the Eve wrapper.                                                        *)
(*                                                                         *)
(* Numbers.  The program computes in floating point.  The model computes   *)
(* in decimal fixed point: a number x is the integer x * ONE, and every    *)
(* product, quotient and square root is rounded towards zero to a multiple *)
(* of 1/ONE, as a floating-point operation rounds its result.  Vectors are *)
(* sequences of such numbers.                                              *)
(***************************************************************************)
EXTENDS Integers, Sequences, FiniteSets

(***************************************************************************)
(* Fixed-point arithmetic                                                  *)
(***************************************************************************)
\* Resolution of the fixed-point numbers: four decimal digits.
ONE == 100 * 100
SqrtONE == 10 * 10

Abs(x) == IF x < 0 THEN -x ELSE x
Sgn(x) == IF x < 0 THEN -1 ELSE 1
Min(a, b) == IF a < b THEN a ELSE b
Max(a, b) == IF a > b THEN a ELSE b

\* The integer n as a number.
Num(n) == n * ONE

\* |a| * |b| / ONE, by halves so that no intermediate exceeds the result's size.
MulAbs(a, b) ==
    LET ah == a \div ONE
        al == a % ONE
        bh == b \div ONE
        bl == b % ONE
    IN  ah * bh * ONE + ah * bl + al * bh + ((al * bl) \div ONE)

FMul(a, b) == Sgn(a) * Sgn(b) * MulAbs(Abs(a), Abs(b))

\* Long division: the digits of r / b after the integer part q.
RECURSIVE DivDigits(_, _, _, _)
DivDigits(q, r, b, n) ==
    IF n = 0 THEN q
    ELSE DivDigits(q * 10 + ((r * 10) \div b), (r * 10) % b, b, n - 1)

\* |a| / |b| to the four decimal digits of the resolution.
DivAbs(a, b) == DivDigits(a \div b, a % b, b, 4)

\* a / b for b # 0.
FDiv(a, b) == Sgn(a) * Sgn(b) * DivAbs(Abs(a), Abs(b))

\* The largest r in lo..hi with r * r <= n (lo * lo <= n assumed).
RECURSIVE ISqrtIn(_, _, _)
ISqrtIn(n, lo, hi) ==
    IF lo >= hi THEN lo
    ELSE LET mid == (lo + hi + 1) \div 2
         IN  IF mid * mid <= n THEN ISqrtIn(n, mid, hi)
             ELSE ISqrtIn(n, lo, mid - 1)

ISqrt(n) == ISqrtIn(n, 0, Min(n, 46340))

\* sqrt(x) for x >= 0.
FSqrt(x) ==
    IF x < 200000 THEN ISqrt(x * ONE) ELSE ISqrt(x) * SqrtONE

RECURSIVE FPow(_, _)
FPow(b, n) == IF n = 0 THEN ONE ELSE FMul(b, FPow(b, n - 1))

(***************************************************************************)
(* Vectors                                                                 *)
(***************************************************************************)
Zeros(n) == [i \in 1..n |-> 0]
VScale(v, c) == [i \in 1..Len(v) |-> FMul(v[i], c)]
VAdd(u, v) == [i \in 1..Len(u) |-> u[i] + v[i]]
VSub(u, v) == [i \in 1..Len(u) |-> u[i] - v[i]]

RECURSIVE SumSq(_, _)
SumSq(v, n) == IF n = 0 THEN 0 ELSE SumSq(v, n - 1) + FMul(v[n], v[n])

Norm(v) == FSqrt(SumSq(v, Len(v)))

(***************************************************************************)
(* Inputs: the parameter groups of the caller and the values it passes     *)
(***************************************************************************)
\* Bound on the number of calls made on the optimizer and its wrapper.
MaxSteps == 3

\* The absent key (Python's None) and the keys of the caller's parameter groups.
None == "None"
Keys == {"a", "b", "e"}
AllKeys == Keys \cup {None}

\* The length of the weight vector the caller passes with each key; "e" is an
\* empty parameter group.
KeyLen(k) == CASE k = "b" -> 2 [] k = "e" -> 0 [] OTHER -> 1

InitWeights(k) ==
    CASE k = "b" -> <<Num(1), -Num(2)>> [] k = "e" -> <<>> [] OTHER -> <<Num(1)>>

\* Gradients of each length: of norm 3, below SGD's ceiling of 100 (length 1),
\* and of norm 200, above it (lengths 1 and 2).
Grads(n) ==
    CASE n = 0 -> {<<>>}
      [] n = 1 -> {<<Num(3)>>, <<Num(200)>>}
      [] OTHER -> {<<Num(120), -Num(160)>>}

LrScales == {ONE, ONE \div 2}
Losses == {Num(4), Num(10), Num(11)}

\* Constructor arguments: SGD(ops, lr, momentum, decay, averages=...) and
\* Adam(ops, lr) with L2 = 1e-4, beta1 = 0.9, beta2 = 0.999 at their defaults
\* and eps = 1e-4, the resolution of the numbers (in units of 1/ONE: 1, 9000,
\* 9990 and 1).
SGDConfigs ==
    [kind : {"SGD"}, alpha : {ONE \div 10}, mu : {0, ONE \div 2}, decay : {ONE},
     averages : BOOLEAN, L2 : {0}, b1 : {0}, b2 : {0}, eps : {0}]
AdamConfigs ==
    [kind : {"Adam"}, alpha : {ONE \div 10}, mu : {0}, decay : {0},
     averages : {TRUE}, L2 : {1}, b1 : {9000}, b2 : {9990}, eps : {1}]

(***************************************************************************)
(* State                                                                   *)
(***************************************************************************)
VARIABLES
    cfg,        \* the wrapped optimizer's class and constructor arguments
    nr_update,  \* self.nr_update: key -> number of updates (a defaultdict)
    momentums,  \* SGD.momentums: key -> buffer
    mom1,       \* Adam.mom1: key -> buffer
    mom2,       \* Adam.mom2: key -> buffer
    averages,   \* self.averages: key -> buffer (stays empty when it is None)
    nalloc,     \* number of buffers ops.allocate has handed out
    weights,    \* the caller's weight vector of each parameter group
    gradient,   \* the caller's gradient buffer, as the last update call left it
    d,          \* Eve.d
    f,          \* Eve.f: <<>> for None, <<x>> for the number x
    last,       \* the last call made and what it was given
    done,       \* per key, the number of update calls that returned
    nloss,      \* number of Eve.set_loss calls made
    steps       \* number of calls made so far

vars == <<cfg, nr_update, momentums, mom1, mom2, averages, nalloc, weights,
          gradient, d, f, last, done, nloss, steps>>

optimizer == <<nr_update, momentums, mom1, mom2, averages, nalloc>>

\* An empty dict.
EmptyMap == [k \in {} |-> 0]

NoCall == [op |-> "none", ok |-> TRUE, key |-> None, g_in |-> <<>>,
           w_in |-> <<>>, lr_scale |-> ONE, val |-> 0]

Init ==
    /\ cfg \in SGDConfigs \cup AdamConfigs
    /\ nr_update = EmptyMap
    /\ momentums = EmptyMap
    /\ mom1 = EmptyMap
    /\ mom2 = EmptyMap
    /\ averages = EmptyMap
    /\ nalloc = 0
    /\ weights = [k \in AllKeys |-> InitWeights(k)]
    /\ gradient = <<>>
    /\ d = ONE
    /\ f = <<>>
    /\ last = NoCall
    /\ done = [k \in AllKeys |-> 0]
    /\ nloss = 0
    /\ steps = 0

(***************************************************************************)
(* NumericOps: the ops object the optimizers are constructed with          *)
(***************************************************************************)
\* ops.allocate(n): a fresh zeroed buffer; id tells one allocation from another.
allocate(n, id) == [id |-> id, val |-> Zeros(n)]

\* ops.clip_gradient(gradient, threshold): a gradient whose norm exceeds the
\* threshold is rescaled to that norm, any other is left as it is.
clip_gradient(g, threshold) ==
    LET grad_norm == Norm(g)
    IN  IF grad_norm > threshold THEN VScale(g, FDiv(threshold, grad_norm)) ELSE g

\* ops.adam(weights, gradient, mom1, mom2, beta1, beta2, eps, lr): the fused
\* moment update; the new weights and moments.
adam(w, g, m1, m2, beta1, beta2, eps, lr) ==
    LET n1 == [i \in 1..Len(w) |-> FMul(beta1, m1[i]) + FMul(ONE - beta1, g[i])]
        n2 == [i \in 1..Len(w) |->
                  FMul(beta2, m2[i]) + FMul(ONE - beta2, FMul(g[i], g[i]))]
    IN  [weights |-> [i \in 1..Len(w) |->
                         w[i] - FDiv(FMul(lr, n1[i]), FSqrt(n2[i]) + eps)],
         mom1 |-> n1, mom2 |-> n2]

\* ops.update_averages(ema, weights, t): the count-weighted running average,
\* weighing the past more as the counter t grows.
update_averages(ema, w, t) ==
    LET decay == Min(FDiv(Num(1 + t), Num(10 + t)), ONE - 1)
    IN  [i \in 1..Len(w) |-> ema[i] - FMul(ONE - decay, ema[i] - w[i])]

(***************************************************************************)
(* Shared helpers                                                          *)
(***************************************************************************)
\* linear_decay(rate, decay, nr_upd) = rate * 1./(1. + decay * nr_upd)
linear_decay(rate, decay, nr_upd) ==
    FDiv(FMul(rate, ONE), ONE + FMul(decay, Num(nr_upd)))

\* self.nr_update[key]: a defaultdict(int) reads 0 for a key it does not hold.
Counter(k) == IF k \in DOMAIN nr_update THEN nr_update[k] ELSE 0

\* Faulty variant of IncrementNrUpdate: the counter is set to 1, not incremented.
IncrementNrUpdate_Assign(key) ==
    [k \in DOMAIN nr_update \cup {key} |-> IF k = key THEN 1 ELSE nr_update[k]]

\* self.nr_update[key] += 1
IncrementNrUpdate(key) ==
    [k \in DOMAIN nr_update \cup {key} |->
        IF k = key THEN Counter(key) + 1 ELSE nr_update[k]]

\* m[key] = buf
Put(m, key, buf) == [k \in DOMAIN m \cup {key} |-> IF k = key THEN buf ELSE m[k]]

\* self.max_grad_norm = 100.
max_grad_norm == Num(100)

\* nr_iter: the largest update counter, 0 when no key was updated.
nr_iter ==
    IF DOMAIN nr_update = {} THEN 0
    ELSE CHOOSE n \in {nr_update[k] : k \in DOMAIN nr_update} :
            \A k \in DOMAIN nr_update : nr_update[k] <= n

\* The tail of both __call__ methods: when self.averages is not None, the
\* key's average buffer is allocated on first use and updated with the new
\* weights.  n is the number of buffers allocated so far.
UpdateAverages(key, w, nr_upd, n) ==
    IF cfg.averages
    THEN LET buf == IF key \in DOMAIN averages THEN averages[key]
                    ELSE allocate(Len(w), n + 1)
         IN  [averages |-> Put(averages, key,
                  [buf EXCEPT !.val = update_averages(buf.val, w, nr_upd)]),
              nalloc |-> IF key \in DOMAIN averages THEN n ELSE n + 1]
    ELSE [averages |-> averages, nalloc |-> n]

(***************************************************************************)
(* SGD                                                                     *)
(***************************************************************************)
\* SGD.lr(nr_upd)
SGD_lr(nr_upd) == linear_decay(cfg.alpha, cfg.decay, nr_upd)

\* Faulty variant of SGDPlain: the step is added to the weights.
SGDPlain_Add(w, g, lr) ==
    [weights |-> VAdd(w, VScale(g, lr)),
     gradient |-> Zeros(Len(g)),
     momentums |-> momentums,
     nalloc |-> nalloc]

\* The branch taken when key is None or self.mu == 0.0: gradient is the clipped
\* gradient.
SGDPlain(w, g, lr) ==
    [weights |-> VSub(w, VScale(g, lr)),
     gradient |-> Zeros(Len(g)),
     momentums |-> momentums,
     nalloc |-> nalloc]

\* Faulty variant of SGDMomentum: the gradient is not cleared.
SGDMomentum_NoFill(w, g, key, lr) ==
    LET buf == IF key \in DOMAIN momentums THEN momentums[key]
               ELSE allocate(Len(w), nalloc + 1)
        momentum == VAdd(VScale(buf.val, cfg.mu), VScale(g, lr))
    IN  [weights |-> VSub(w, momentum),
         gradient |-> g,
         momentums |-> Put(momentums, key, [buf EXCEPT !.val = momentum]),
         nalloc |-> IF key \in DOMAIN momentums THEN nalloc ELSE nalloc + 1]

\* Faulty variant of SGDMomentum: a buffer is allocated on every call.
SGDMomentum_Realloc(w, g, key, lr) ==
    LET buf == allocate(Len(w), nalloc + 1)
        momentum == VAdd(VScale(buf.val, cfg.mu), VScale(g, lr))
    IN  [weights |-> VSub(w, momentum),
         gradient |-> Zeros(Len(g)),
         momentums |-> Put(momentums, key, [buf EXCEPT !.val = momentum]),
         nalloc |-> nalloc + 1]

\* The momentum branch.
SGDMomentum(w, g, key, lr) ==
    LET buf == IF key \in DOMAIN momentums THEN momentums[key]
               ELSE allocate(Len(w), nalloc + 1)
        momentum == VAdd(VScale(buf.val, cfg.mu), VScale(g, lr))
    IN  [weights |-> VSub(w, momentum),
         gradient |-> Zeros(Len(g)),
         momentums |-> Put(momentums, key, [buf EXCEPT !.val = momentum]),
         nalloc |-> IF key \in DOMAIN momentums THEN nalloc ELSE nalloc + 1]

\* The test that selects the plain branch: key is None or self.mu == 0.0
SGDTakesPlain(key) == key = None \/ cfg.mu = 0

\* SGD.__call__(weights, gradient, key, lr_scale): the state it leaves.
SGD__call__(w, g, key, lr_scale) ==
    LET nr_upd == Counter(key) + 1
        lr == FMul(SGD_lr(nr_upd), lr_scale)
        clipped == clip_gradient(g, max_grad_norm)
        step == IF SGDTakesPlain(key) THEN SGDPlain(w, clipped, lr)
                ELSE SGDMomentum(w, clipped, key, lr)
        avg == UpdateAverages(key, step.weights, nr_upd, step.nalloc)
    IN  [ok |-> TRUE,
         nr_update |-> IncrementNrUpdate(key),
         momentums |-> step.momentums,
         mom1 |-> mom1,
         mom2 |-> mom2,
         averages |-> avg.averages,
         nalloc |-> avg.nalloc,
         weights |-> step.weights,
         gradient |-> step.gradient]

(***************************************************************************)
(* Adam                                                                    *)
(***************************************************************************)
\* Adam.lr(nr_upd)
Adam_lr(nr_upd) ==
    LET alpha == linear_decay(cfg.alpha, cfg.decay, nr_upd)
        fix1 == ONE - FPow(cfg.b1, nr_upd)
        fix2 == ONE - FPow(cfg.b2, nr_upd)
    IN  FDiv(FMul(alpha, FSqrt(fix2)), fix1)

\* Faulty variant of AdamPrecondition: the key is not asserted.
AdamPrecondition_NoKey(g, key) == Len(g) >= 1

\* The two assertions Adam.__call__ opens with.
AdamPrecondition(g, key) == key # None /\ Len(g) >= 1

\* The state a call leaves that raised before changing anything.
Raised(g) ==
    [ok |-> FALSE, nr_update |-> nr_update, momentums |-> momentums,
     mom1 |-> mom1, mom2 |-> mom2, averages |-> averages, nalloc |-> nalloc,
     weights |-> <<>>, gradient |-> g]

\* Adam.__call__ past its assertions.
AdamBody(w, g, key, lr_scale) ==
    LET buf1 == IF key \in DOMAIN mom1 THEN mom1[key] ELSE allocate(Len(w), nalloc + 1)
        n1 == IF key \in DOMAIN mom1 THEN nalloc ELSE nalloc + 1
        buf2 == IF key \in DOMAIN mom2 THEN mom2[key] ELSE allocate(Len(w), n1 + 1)
        n2 == IF key \in DOMAIN mom2 THEN n1 ELSE n1 + 1
        nr_upd == Counter(key) + 1
        g1 == VAdd(g, VScale(w, cfg.L2))
        g2 == clip_gradient(g1, FDiv(Num(Len(g)), Num(100)))
        lr == FMul(Adam_lr(nr_upd), lr_scale)
        b1 == cfg.b1
        b2 == cfg.b1
        new == adam(w, g2, buf1.val, buf2.val, b1, b2, cfg.eps, lr)
        avg == UpdateAverages(key, new.weights, nr_upd, n2)
    IN  [ok |-> TRUE,
         nr_update |-> IncrementNrUpdate(key),
         momentums |-> momentums,
         mom1 |-> Put(mom1, key, [buf1 EXCEPT !.val = new.mom1]),
         mom2 |-> Put(mom2, key, [buf2 EXCEPT !.val = new.mom2]),
         averages |-> avg.averages,
         nalloc |-> avg.nalloc,
         weights |-> new.weights,
         gradient |-> Zeros(Len(g))]

\* Adam.__call__(weights, gradient, lr_scale, key): the state it leaves; on a
\* failed assertion weights is not written.
Adam__call__(w, g, key, lr_scale) ==
    IF AdamPrecondition(g, key) THEN AdamBody(w, g, key, lr_scale) ELSE Raised(g)

(***************************************************************************)
(* Eve                                                                     *)
(***************************************************************************)
\* self.b3 = 0.999, self.lower_threshold = 0.1, self.upper_threshold = 10
b3 == (999 * ONE) \div 1000
lower_threshold == ONE \div 10
upper_threshold == Num(10)

\* self.optimizer(weights, gradient, key=key, lr_scale=lr_scale)
Optimizer__call__(w, g, key, lr_scale) ==
    IF cfg.kind = "SGD" THEN SGD__call__(w, g, key, lr_scale)
    ELSE Adam__call__(w, g, key, lr_scale)

\* Faulty variant of Eve__call__: lr_scale is left at its default.
Eve__call__DefaultScale(w, g, key) == Optimizer__call__(w, g, key, ONE)

\* Eve.__call__(weights, gradient, key)
Eve__call__(w, g, key) == Optimizer__call__(w, g, key, d)

\* Variant of Eve_get_c that caps at the upper value Delta.
Eve_get_c_Delta(loss, old_f) ==
    LET delta == IF loss < old_f THEN lower_threshold + ONE
                 ELSE FDiv(ONE, upper_threshold + ONE)
        Delta == IF loss < old_f THEN upper_threshold + ONE
                 ELSE FDiv(ONE, lower_threshold + ONE)
    IN  Min(Max(delta, FDiv(loss, old_f)), Delta)

\* Eve._get_c(loss, old_f)
Eve_get_c(loss, old_f) ==
    LET delta == IF loss < old_f THEN lower_threshold + ONE
                 ELSE FDiv(ONE, upper_threshold + ONE)
        Delta == IF loss < old_f THEN upper_threshold + ONE
                 ELSE FDiv(ONE, lower_threshold + ONE)
    IN  Min(Max(delta, FDiv(loss, old_f)), delta)

\* Faulty variant of Eve_set_loss: the first call does not return early.
Eve_set_loss_NoReturn(loss) ==
    LET old_f == IF f = <<>> THEN loss ELSE f[1]
        c == Eve_get_c(loss, old_f)
        new_f == FMul(c, loss)
        r == FDiv(Abs(new_f - old_f), Min(new_f, old_f))
        new_d == d + FMul(ONE - b3, r - d)
    IN  IF f = <<>> THEN [d |-> new_d, f |-> <<loss>>]
        ELSE [d |-> new_d, f |-> <<new_f>>]

\* Faulty variant of Eve_set_loss: d jumps to r without smoothing.
Eve_set_loss_NoSmoothing(loss) ==
    IF f = <<>> THEN [d |-> d, f |-> <<loss>>]
    ELSE LET old_f == f[1]
             c == Eve_get_c(loss, old_f)
             new_f == FMul(c, loss)
             r == FDiv(Abs(new_f - old_f), Min(new_f, old_f))
         IN  [d |-> r, f |-> <<new_f>>]

\* Eve.set_loss(loss): the d and f it leaves.
Eve_set_loss(loss) ==
    IF f = <<>> THEN [d |-> d, f |-> <<loss>>]
    ELSE LET old_f == f[1]
             c == Eve_get_c(loss, old_f)
             new_f == FMul(c, loss)
             r == FDiv(Abs(new_f - old_f), Min(new_f, old_f))
             new_d == d + FMul(ONE - b3, r - d)
         IN  [d |-> new_d, f |-> <<new_f>>]

(***************************************************************************)
(* Calls                                                                   *)
(***************************************************************************)
\* The caller's buffers and the optimizer's maps after a call that left res.
Apply(res, key) ==
    /\ nr_update' = res.nr_update
    /\ momentums' = res.momentums
    /\ mom1' = res.mom1
    /\ mom2' = res.mom2
    /\ averages' = res.averages
    /\ nalloc' = res.nalloc
    /\ weights' = IF res.ok THEN [weights EXCEPT ![key] = res.weights] ELSE weights
    /\ gradient' = res.gradient
    /\ done' = IF res.ok THEN [done EXCEPT ![key] = @ + 1] ELSE done

Called(op, res, key, g, lr_scale) ==
    [op |-> op, ok |-> res.ok, key |-> key, g_in |-> g, w_in |-> weights[key],
     lr_scale |-> lr_scale, val |-> 0]

\* optimizer(weights, gradient, key=key, lr_scale=lr_scale) on an SGD instance
SGDUpdate(key, g, lr_scale) ==
    /\ steps < MaxSteps
    /\ cfg.kind = "SGD"
    /\ LET res == SGD__call__(weights[key], g, key, lr_scale)
       IN  /\ Apply(res, key)
           /\ last' = Called("SGD.update", res, key, g, lr_scale)
    /\ steps' = steps + 1
    /\ UNCHANGED <<cfg, d, f, nloss>>

\* optimizer(weights, gradient, key=key, lr_scale=lr_scale) on an Adam instance
AdamUpdate(key, g, lr_scale) ==
    /\ steps < MaxSteps
    /\ cfg.kind = "Adam"
    /\ LET res == Adam__call__(weights[key], g, key, lr_scale)
       IN  /\ Apply(res, key)
           /\ last' = Called("Adam.update", res, key, g, lr_scale)
    /\ steps' = steps + 1
    /\ UNCHANGED <<cfg, d, f, nloss>>

\* Eve(optimizer)(weights, gradient, key=key)
EveUpdate(key, g) ==
    /\ steps < MaxSteps
    /\ LET res == Eve__call__(weights[key], g, key)
       IN  /\ Apply(res, key)
           /\ last' = Called("Eve.update", res, key, g, d)
    /\ steps' = steps + 1
    /\ UNCHANGED <<cfg, d, f, nloss>>

\* Eve(optimizer).set_loss(loss)
EveSetLoss(loss) ==
    /\ steps < MaxSteps
    /\ LET res == Eve_set_loss(loss)
       IN  /\ d' = res.d
           /\ f' = res.f
    /\ last' = [NoCall EXCEPT !.op = "Eve.set_loss", !.val = loss]
    /\ nloss' = nloss + 1
    /\ steps' = steps + 1
    /\ UNCHANGED <<cfg, optimizer, weights, gradient, done>>

\* optimizer.set_loss(loss) on the SGD or Adam instance: pass
SetLoss(loss) ==
    /\ steps < MaxSteps
    /\ last' = [NoCall EXCEPT !.op = "set_loss", !.val = loss]
    /\ steps' = steps + 1
    /\ UNCHANGED <<cfg, optimizer, weights, gradient, d, f, done, nloss>>

\* optimizer.lr(nr_upd), also reached through Eve.__getattr__
ReadLr(nr_upd) ==
    /\ steps < MaxSteps
    /\ last' = [NoCall EXCEPT !.op = "lr",
                  !.val = IF cfg.kind = "SGD" THEN SGD_lr(nr_upd) ELSE Adam_lr(nr_upd)]
    /\ steps' = steps + 1
    /\ UNCHANGED <<cfg, optimizer, weights, gradient, d, f, done, nloss>>

\* optimizer.nr_iter, also reached through Eve.__getattr__
ReadNrIter ==
    /\ steps < MaxSteps
    /\ last' = [NoCall EXCEPT !.op = "nr_iter", !.val = nr_iter]
    /\ steps' = steps + 1
    /\ UNCHANGED <<cfg, optimizer, weights, gradient, d, f, done, nloss>>

Next ==
    \/ \E key \in AllKeys : \E g \in Grads(KeyLen(key)) : \E lr_scale \in LrScales :
          SGDUpdate(key, g, lr_scale)
    \/ \E key \in AllKeys : \E g \in Grads(KeyLen(key)) : \E lr_scale \in LrScales :
          AdamUpdate(key, g, lr_scale)
    \/ \E key \in AllKeys : \E g \in Grads(KeyLen(key)) : EveUpdate(key, g)
    \/ \E loss \in Losses : EveSetLoss(loss)
    \/ \E loss \in Losses : SetLoss(loss)
    \/ \E nr_upd \in 1..2 : ReadLr(nr_upd)
    \/ ReadNrIter

Spec == Init /\ [][Next]_vars

(***************************************************************************)
(* Properties                                                              *)
(***************************************************************************)
IsUpdate(c) == c.op \in {"SGD.update", "Adam.update", "Eve.update"}

\* C1: every update call of SGD (plain and momentum branch) and of Adam that
\* returns leaves the gradient buffer the zero vector of the length it had.
C1_GradientZeroed ==
    (IsUpdate(last) /\ last.ok) => gradient = Zeros(Len(last.g_in))

\* An SGD update through the momentum branch, after earlier updates, with a
\* non-zero clipped gradient and a non-default lr_scale.
C1_Witness ==
    /\ last.op = "SGD.update" /\ last.ok
    /\ cfg.mu # 0 /\ last.key = "b"
    /\ Norm(last.g_in) > max_grad_norm
    /\ last.lr_scale # ONE
    /\ done["b"] >= 2

C3_AdamPreconditionFailure ==
    [][(/\ cfg.kind = "Adam"
        /\ IsUpdate(last')
        /\ (last'.key = None \/ Len(last'.g_in) = 0))
       => (/\ ~last'.ok
           /\ UNCHANGED <<optimizer, weights, done>>
           /\ gradient' = last'.g_in)]_vars

\* A failed Adam update with an absent key and a non-zero gradient, on an
\* instance that holds buffers of an earlier update.
C3_Witness ==
    /\ last.op = "Adam.update" /\ ~last.ok
    /\ last.key = None
    /\ last.g_in = <<Num(200)>>
    /\ "a" \in DOMAIN mom1

\* C4: after any SGD updates, neither the momentum map nor the
\* running-average map holds an entry for the absent key, whatever the
\* momentum and whether or not running averages are enabled.
C4_NoBufferForAbsentKey ==
    cfg.kind = "SGD" => (None \notin DOMAIN momentums /\ None \notin DOMAIN averages)

\* What SGD keeps for the absent key: never a momentum buffer, and an average
\* buffer from the first update with the absent key on, when running averages
\* are enabled.
AbsentKeyBuffers ==
    cfg.kind = "SGD" =>
        /\ None \notin DOMAIN momentums
        /\ (None \in DOMAIN averages <=> (cfg.averages /\ Counter(None) >= 1))

\* lr(1) = baseRate / (1 + decay)
Lr1 == FDiv(cfg.alpha, ONE + cfg.decay)

\* The first SGD update of a fresh key with momentum 0 and default lrScale.
FirstPlainUpdate ==
    /\ last'.op = "SGD.update"
    /\ cfg.mu = 0
    /\ Counter(last'.key) = 0
    /\ last'.lr_scale = ONE

\* C5 as claimed: on the first update of a fresh key, SGD with momentum 0 and
\* default lrScale leaves weights_before - lr(1) * gradient_before, for every
\* gradient passed in.
C5_FirstUpdateUnclipped ==
    [][FirstPlainUpdate =>
          weights'[last'.key]
            = VSub(weights[last'.key], VScale(last'.g_in, Lr1))]_vars

\* C5 as amended: the same with the gradient as passed in when its norm is at
\* most 100, and the gradient rescaled to norm 100 when its norm exceeds 100.
C5_FirstUpdateClipped ==
    [][FirstPlainUpdate =>
          LET g == last'.g_in
              used == IF Norm(g) > Num(100)
                      THEN VScale(g, FDiv(Num(100), Norm(g))) ELSE g
          IN  weights'[last'.key] = VSub(weights[last'.key], VScale(used, Lr1))]_vars

\* A first update of key "b" with momentum 0, default lrScale and a gradient
\* of norm 200.
C5_Witness ==
    /\ last.op = "SGD.update" /\ cfg.mu = 0
    /\ last.key = "b" /\ Counter("b") = 1
    /\ last.lr_scale = ONE
    /\ Norm(last.g_in) > max_grad_norm

\* What the wrapped optimizer's own update leaves when called with the
\* arguments of the Eve call just made and lr_scale = d.
SameAsWrapped ==
    LET key == last'.key
        res == Optimizer__call__(weights[key], last'.g_in, key, d)
    IN  /\ last'.ok = res.ok
        /\ nr_update' = res.nr_update
        /\ momentums' = res.momentums
        /\ mom1' = res.mom1
        /\ mom2' = res.mom2
        /\ averages' = res.averages
        /\ gradient' = res.gradient
        /\ weights' = IF res.ok THEN [weights EXCEPT ![key] = res.weights]
                      ELSE weights

\* C6 as claimed: an Eve update accepts any key, the absent one included,
\* and for a wrapped SGD and a wrapped Adam alike completes with the effect of
\* the wrapped optimizer's update called with the same key and lrScale = d.
C6_EveCompletes ==
    [][last'.op = "Eve.update" => (last'.ok /\ SameAsWrapped)]_vars

\* C6 as amended: an Eve update has the outcome of the wrapped optimizer's
\* update called with the same key and lrScale = d; it completes for any key
\* when SGD is wrapped, and when Adam is wrapped it completes exactly for a
\* present key with a non-empty gradient and otherwise fails as Adam does.
C6_EveDelegates ==
    [][last'.op = "Eve.update" =>
          /\ SameAsWrapped
          /\ cfg.kind = "SGD" => last'.ok
          /\ cfg.kind = "Adam" =>
                (last'.ok <=> (last'.key # None /\ Len(last'.g_in) >= 1))]_vars

\* An Eve update that completed after two set_loss calls moved d away from 1.
C6_Witness ==
    /\ last.op = "Eve.update" /\ last.ok
    /\ d # ONE
    /\ last.lr_scale = d
    /\ last.key = "a"

\* C7: Eve's d and f change only in set_loss; the first set_loss(x), however
\* many updates came before it, stores f = x and leaves d = 1.0; set_loss
\* never changes the wrapped optimizer's counters or buffers.
C7_EveStateFrame ==
    [][/\ last'.op # "Eve.set_loss" => UNCHANGED <<d, f>>
       /\ last'.op = "Eve.set_loss" =>
             /\ UNCHANGED <<optimizer, weights, gradient>>
             /\ nloss = 0 => (f = <<>> /\ d = ONE /\ f' = <<last'.val>> /\ d' = ONE)]_vars

\* The first set_loss, made after two updates.
C7_Witness ==
    /\ last.op = "Eve.set_loss"
    /\ nloss = 1
    /\ f = <<last.val>>
    /\ \E k \in AllKeys : Counter(k) = 2

\* The second set_loss call, made with a loss below the first one.
SecondSmallerLoss ==
    /\ last'.op = "Eve.set_loss"
    /\ nloss = 1
    /\ last'.val < f[1]

\* The relative change r of the second call: c = lowerThreshold + 1 there.
SecondR ==
    LET new_f == FMul(lower_threshold + ONE, last'.val)
    IN  FDiv(Abs(new_f - f[1]), Min(new_f, f[1]))

SmoothingStep == FMul(ONE - b3, Abs(SecondR - d))

\* C8 as claimed: a second set_loss with a smaller loss increases or holds d,
\* and moves it by at most (1 - beta3) * |r - d|.
C8_SmallerLossRaisesD ==
    [][SecondSmallerLoss => (d' >= d /\ Abs(d' - d) <= SmoothingStep)]_vars

\* C8 as amended: a second set_loss with a smaller loss moves d towards r by
\* at most (1 - beta3) * |r - d|: d does not fall when r >= d and does not
\* rise when r <= d.
C8_DMovesTowardsR ==
    [][SecondSmallerLoss =>
          /\ Abs(d' - d) <= SmoothingStep
          /\ SecondR >= d => d' >= d
          /\ SecondR <= d => d' <= d]_vars

\* After the second set_loss, made with a smaller loss, d is below 1.0.
C8_Witness ==
    /\ last.op = "Eve.set_loss"
    /\ nloss = 2
    /\ f = <<FMul(lower_threshold + ONE, last.val)>>
    /\ d < ONE

\* The clamp factor the claim gives for loss against the baseline old_f.
BranchC(loss, old_f) ==
    IF loss < old_f THEN lower_threshold + ONE ELSE FDiv(ONE, upper_threshold + ONE)

\* C9: against every baseline f that is reached and for every loss, the clamp
\* factor is lowerThreshold + 1 when loss < f and 1 / (upperThreshold + 1)
\* otherwise, and set_loss stores that factor times the loss.
C9_ClampFactorPinned ==
    [][(last'.op = "Eve.set_loss" /\ f # <<>>) =>
          /\ f[1] > 0
          /\ \A loss \in Losses \cup {f[1]} :
                Eve_get_c(loss, f[1]) = BranchC(loss, f[1])
          /\ f' = <<FMul(BranchC(last'.val, f[1]), last'.val)>>]_vars

\* A set_loss call with a loss above the baseline: loss / f exceeds both
\* bounds of its branch.
C9_Witness ==
    /\ last.op = "Eve.set_loss"
    /\ nloss = 2
    /\ f = <<FMul(FDiv(ONE, upper_threshold + ONE), last.val)>>
    /\ last.val = Num(11)

\* The buffers of every key a map holds are the ones it held before.
Kept(m) == \A k \in DOMAIN m : k \in DOMAIN m' /\ m'[k].id = m[k].id

\* C10: a momentum or moment buffer exists for a key only if the key's
\* counter is at least 1; SGD holds a momentum buffer exactly for the present
\* keys it has updated, and only when momentum is not 0; Adam's two moment
\* maps hold the same keys; and an update keeps the buffers the maps hold.
C10_LazyBuffers ==
    /\ [](\A k \in AllKeys :
            /\ (k \in DOMAIN momentums \cup DOMAIN mom1 \cup DOMAIN mom2)
                  => Counter(k) >= 1
            /\ k \in DOMAIN momentums
                  <=> (cfg.kind = "SGD" /\ cfg.mu # 0 /\ k # None /\ Counter(k) >= 1)
            /\ k \in DOMAIN mom1 <=> k \in DOMAIN mom2)
    /\ [][Kept(momentums) /\ Kept(mom1) /\ Kept(mom2)]_vars

\* The third update of one key by SGD with momentum.
C10_Witness ==
    /\ cfg.kind = "SGD" /\ cfg.mu # 0
    /\ Counter("a") = 3
    /\ "a" \in DOMAIN momentums

====
